---------------------------- MODULE Spec2Model ----------------------------
(***************************************************************************)
(* Wordbomb (src/main.py): the registry `games`, the interaction handlers  *)
(* (create, join, start, stop), the message handler and the turn loop      *)
(* startGame, as one state machine.                                        *)
(*                                                                         *)
(* A game object is a record of the fields of class wordbombGame.  The     *)
(* objects live in `pool` (an object's index is its identity, which also   *)
(* stands for its random gameID); `games` is the dict of line 18, host id  *)
(* -> object (0: no entry).  An object deleted from `games` stays in       *)
(* `pool` as long as the task that runs its loop holds it; after that its  *)
(* place is free and the next object constructed takes it.                 *)
(*                                                                         *)
(* The coroutines are cut at their await points: one action is the code    *)
(* that runs between two awaits.  Field `pc` of a game is the await its    *)
(* task is suspended at.  Two awaits with no statement between them are    *)
(* one suspension.                                                         *)
(*                                                                         *)
(* timeRemaining is counted in whole time units.  The wait of lines        *)
(* 149-156 sleeps 0.1 unit at a time; between two sleeps it changes        *)
(* nothing but timeRemaining, so the sleeps of one unit are one            *)
(* suspension (pc "poll") and a message that arrives during it is seen     *)
(* when it ends; the last one stands for the last sleep before             *)
(* timeRemaining reaches 0, after which line 152 is tested before line     *)
(* 149.                                                                    *)
(*                                                                         *)
(* Words and message contents are sequences of one-letter strings.         *)
(* List indices are 0-based as in the source: At(l, i) is l[i].            *)
(***************************************************************************)
EXTENDS Integers, Sequences, FiniteSets, TLC

(* ------------------------------ bounds -------------------------------- *)

\* user ids are 1..NumUsers
NumUsers == 2

\* channel ids are 1..NumRooms
NumRooms == 2

\* the dictionary holds the words "a", a^2 .. a^(NumWords+1) and "ab"
NumWords == 11

\* a turn that would take hearts below -MaxDebt is not followed further
MaxDebt == 1

\* ids NumUsers+1 .. NumUsers+NumGuests are users who join and play and
\* never create a game
NumGuests == 1

Users == 1..NumUsers
Rooms == 1..NumRooms
Guests == (NumUsers + 1)..(NumUsers + NumGuests)

(* ------------------------------ words --------------------------------- *)

Unary(k) == [i \in 1..k |-> "a"]

\* Data.words: the lower-cased lines of words.txt
Words == {Unary(k) : k \in 1..(NumWords + 1)} \cup {<<"a", "b">>}

\* str.lower() on one letter
LowerChar(ch) ==
    CASE ch = "A" -> "a"
      [] ch = "B" -> "b"
      [] OTHER -> ch

\* str.lower()
Lower(w) == [i \in 1..Len(w) |-> LowerChar(w[i])]

\* str.startswith
StartsWith(w, p) == Len(p) <= Len(w) /\ SubSeq(w, 1, Len(p)) = p

\* timeStageRelation, in time units
TimeStageRelation(stage) ==
    CASE stage = 1 -> 8 [] stage = 2 -> 7 [] stage = 3 -> 6 [] stage = 4 -> 5
      [] stage = 5 -> 4 [] stage = 6 -> 3 [] stage = 7 -> 2

\* stageStartersRelation[i]: word[i - 1] of every word with len(word) > i - 1
StageStarters(i) == {<<w[i]>> : w \in {x \in Words : Len(x) > i - 1}}

\* Data.easy_starters, which line 80 reads and class Data does not define
EasyStarters == StageStarters(1)

(* ------------------------------ objects ------------------------------- *)

At(l, i) == l[i + 1]

Ids(players) == {players[i].id : i \in 1..Len(players)}

\* list.pop(i)
Pop(l, i) == SubSeq(l, 1, i) \o SubSeq(l, i + 2, Len(l))

Player(id) == [id |-> id, hearts |-> 2]

\* wordbombGame.__init__; s is the random.choice of line 80
NewGame(userID, channelID, s) ==
    [userID |-> userID, channelID |-> channelID,
     stage |-> 1, plays |-> 0, countdown |-> 10,
     currentPlayerIndex |-> 0,
     timeRemaining |-> 8,
     players |-> <<Player(userID)>>,
     used_words |-> {},
     currentStarter |-> s,
     running |-> TRUE, responded |-> FALSE, singleplayer |-> FALSE,
     response |-> <<>>,        \* <<>> is None, <<c>> a message of content c
     main_msg |-> FALSE,       \* FALSE is None
     pc |-> "idle",            \* no task holds the object
     ticks |-> 0,              \* iterations done of the loop of line 212
     stats |-> <<>>]           \* the embed gameOver sent, <<>> before

\* an object that neither the dict nor a task refers to any more
Freed == [NewGame(0, 0, <<>>) EXCEPT !.players = <<>>, !.pc = "freed"]

\* the task of the object has returned or raised, or never was
NoTask(g) == g.pc \in {"idle", "done", "crashed", "freed"}

VARIABLES games, pool

vars == <<games, pool>>

Init ==
    /\ games = [u \in Users |-> 0]
    /\ pool = <<>>

Gids == 1..Len(pool)

\* the object's entry is in the dict
Registered(gid) == \E h \in Users : games[h] = gid


(* ------------------------------ handlers ------------------------------ *)
(* A handler is a function from the state to the set of its outcomes: the  *)
(* dict and the objects it leaves, and the reply it sends ("none": it      *)
(* sends nothing; an exception's name: it raises).                         *)

Out(d, p, r) == [games |-> d, pool |-> p, reply |-> r]

WithGame(gid, g) == [pool EXCEPT ![gid] = g]

\* the place of the next object constructed
FreePlace ==
    IF \E i \in Gids : pool[i] = Freed
    THEN CHOOSE i \in Gids : pool[i] = Freed /\ \A j \in Gids : pool[j] = Freed => i <= j
    ELSE Len(pool) + 1

Place(i, g) == IF i <= Len(pool) THEN WithGame(i, g) ELSE Append(pool, g)

\* line 256 left out
RoomNeverTaken(ch) == FALSE

\* line 256: a game of the dict is in channel ch
RoomTaken(ch) == \E h \in Users : games[h] # 0 /\ pool[games[h]].channelID = ch

\* userGameInstanceCreation(interaction) by user u in channel ch
userGameInstanceCreation(u, ch) ==
    IF RoomTaken(ch)
    THEN {Out(games, pool, "RoomOccupied")}
    ELSE IF games[u] # 0
    THEN {Out(games, pool, "HostAlreadyHosting")}
    ELSE {Out([games EXCEPT ![u] = FreePlace],
              Place(FreePlace, NewGame(u, ch, s)),
              "Created") : s \in EasyStarters}

\* line 231 left out
NeverIn(u, g) == FALSE

\* line 231: a player of the roster has the id of the user
AlreadyIn(u, g) == u \in Ids(g.players)

\* joinGame(interaction): user u presses the Join button of object gid
joinGame(u, gid) ==
    IF ~Registered(gid)
    THEN {Out(games, pool, "NotFound")}
    ELSE IF AlreadyIn(u, pool[gid])
    THEN {Out(games, pool, "AlreadyJoined")}
    ELSE {Out(games,
              WithGame(gid, [pool[gid] EXCEPT !.players = Append(@, Player(u))]),
              "Joined")}

\* lines 200-201 of startGameCountdown
MarkSingleplayer(g) ==
    IF Len(g.players) = 1 THEN [g EXCEPT !.singleplayer = TRUE] ELSE g

\* lines 207-210 of startGameCountdown: the task is suspended in
\* send_message, main_msg is assigned when it resumes
Launch(g) == [g EXCEPT !.pc = "starting", !.ticks = 0]

\* startGameCountdown(interaction): user u presses the Start button of
\* object gid
startGameCountdown(u, gid) ==
    IF ~Registered(gid)
    THEN {Out(games, pool, "none")}
    ELSE LET g == MarkSingleplayer(pool[gid]) IN
         IF g.stage = 1
         THEN {Out(games, WithGame(gid, g), "AlreadyStarted")}
         ELSE IF u # g.userID
         THEN {Out(games, WithGame(gid, g), "NotHost")}
         ELSE {Out(games, WithGame(gid, Launch(g)), "Starting")}

\* the host's request that gets past lines 202-205: lines 200-201 and
\* 207-210.  (As the source stands line 202 turns away every request made
\* while stage is 1, which it is until line 184 has run.)
startGameCountdownAdmitted(gid) ==
    {Out(games, WithGame(gid, Launch(MarkSingleplayer(pool[gid]))), "Starting")}

\* on_message for one game: lines 308-311
Deliver(g, u, c) ==
    IF /\ u \in Ids(g.players)
       /\ At(g.players, g.currentPlayerIndex).id = u
    THEN [g EXCEPT !.responded = TRUE, !.response = <<c>>]
    ELSE g

\* on_message(message): user u sends content c in channel ch
on_message(u, ch, c) ==
    {Out(games,
         [i \in Gids |-> IF Registered(i) /\ pool[i].channelID = ch
                         THEN Deliver(pool[i], u, c) ELSE pool[i]],
         "none")}

\* stopgame(interaction) by user u
stopgame(u) ==
    IF games[u] = 0
    THEN {Out(games, pool, "KeyError")}              \* line 358 raises
    ELSE {Out([games EXCEPT ![u] = 0],
              WithGame(games[u], IF NoTask(pool[games[u]]) THEN Freed
                                 ELSE pool[games[u]]),
              IF pool[games[u]].main_msg
              THEN "Stopped"
              ELSE "AttributeError")}                \* line 363: None.edit

(* ----------------------------- turn loop ------------------------------ *)
(* The straight-line code of startGame between awaits, as functions from   *)
(* the object to the set of objects it may become (a set because of the    *)
(* random.choice of line 186).  pc names the await the task stops at:      *)
(*   starting  line 210      countdown line 213     counted  line 216(5th) *)
(*   turn      line 147      poll      line 150     timeout  lines 154-155 *)
(*   react     line 164      rejected  lines 166-167                       *)
(*   died      line 173      buried    line 177     wins     line 180      *)
(*   gameover  lines 108-111                                               *)
(*   done: the task returned; crashed: it raised                           *)

Min(a, b) == IF a < b THEN a ELSE b

Current(g) == At(g.players, g.currentPlayerIndex)

\* Game.players[Game.currentPlayerIndex].hearts -= 1
LoseLife(g) == [g EXCEPT !.players[g.currentPlayerIndex + 1].hearts = @ - 1]

\* line 161 left out
NeverRepeated(g, content) == FALSE

\* line 161
Repeated(g, content) == content \in g.used_words

\* the condition of lines 160-163 on response_content
Rejected(g, content) ==
    \/ Len(content) < 2
    \/ Repeated(g, content)
    \/ ~StartsWith(content, Lower(g.currentStarter))
    \/ content \notin Words

\* gameOver, lines 102-108: the embed is built, the task awaits the
\* transport
GameOverEmbed(g) ==
    [g EXCEPT !.pc = "gameover",
              !.stats = <<[stage |-> g.stage, plays |-> g.plays,
                           winner |-> IF g.players # <<>>
                                      THEN g.players[1].id ELSE 0]>>]

\* lines 140-147: the head of the loop
LoopTop(g) ==
    IF ~g.running THEN [g EXCEPT !.pc = "done"]
    ELSE IF g.players = <<>> THEN GameOverEmbed(g)
    ELSE [g EXCEPT !.pc = "turn"]

\* line 187 without the modulo
NextIndexNoWrap(i, n) == i + 1

\* line 187
NextIndex(i, n) == (i + 1) % n

\* line 184
StageOf(plays) == Min(7, (plays \div 10) + 1)

\* lines 184-188, then the head of the loop
Advance(g) ==
    LET st == StageOf(g.plays)
        g1 == [g EXCEPT !.stage = st,
                        !.timeRemaining = TimeStageRelation(st)]
    IN  IF StageStarters(st) = {}
        THEN {[g1 EXCEPT !.pc = "crashed"]}          \* line 186: IndexError
        ELSE {IF Len(g.players) = 0
              THEN [g1 EXCEPT !.currentStarter = s,
                              !.pc = "crashed"]      \* line 187: modulo by 0
              ELSE LoopTop([g1 EXCEPT
                      !.currentStarter = s,
                      !.currentPlayerIndex = NextIndex(@, Len(g.players)),
                      !.response = <<>>,
                      !.responded = FALSE])
              : s \in StageStarters(st)}

\* lines 179-182, then Advance
WinCheck(g) ==
    IF Len(g.players) = 1 /\ ~g.singleplayer
    THEN {[g EXCEPT !.pc = "wins"]}
    ELSE Advance(g)

\* lines 172-173, then WinCheck
Eliminate(g) ==
    IF Current(g).hearts = 0
    THEN {[g EXCEPT !.pc = "died"]}
    ELSE WinCheck(g)

\* lines 174-177
Bury(g) ==
    LET left == Pop(g.players, g.currentPlayerIndex) IN
    [g EXCEPT !.players = left,
              !.currentPlayerIndex = IF @ >= Len(left) THEN 0 ELSE @,
              !.pc = "buried"]

\* lines 158-170, then Eliminate
Resolve(g) ==
    IF g.responded
    THEN LET content == Lower(g.response[1]) IN
         IF Rejected(g, content)
         THEN {[g EXCEPT !.pc = "react"]}
         ELSE Eliminate([g EXCEPT !.used_words = @ \cup {content},
                                  !.plays = @ + 1])
    ELSE Eliminate(g)

\* line 149: the test of the inner loop
Wait(g) == IF g.responded THEN Resolve(g) ELSE {[g EXCEPT !.pc = "poll"]}

\* lines 151-156: the task wakes from the sleeps of one time unit
Tick(g) ==
    LET g1 == [g EXCEPT !.timeRemaining = @ - 1] IN
    IF g1.timeRemaining <= 0
    THEN {[LoseLife(g1) EXCEPT !.pc = "timeout"]}
    ELSE Wait(g1)

\* lines 165-167: the task resumes from add_reaction
Punish(g) == [LoseLife(g) EXCEPT !.pc = "rejected"]

\* lines 212-216: one iteration of the countdown
CountDown(g) ==
    [g EXCEPT !.countdown = @ - 1,
              !.ticks = @ + 1,
              !.pc = IF g.ticks + 1 < 5 THEN "countdown" ELSE "counted"]

\* what the task does when it resumes from the await it is suspended at
Resume(g) ==
    CASE g.pc = "starting" -> {[g EXCEPT !.main_msg = TRUE, !.pc = "countdown"]}
      [] g.pc = "countdown" -> {CountDown(g)}
      [] g.pc = "counted" -> {LoopTop(g)}
      [] g.pc = "turn" -> Wait(g)
      [] g.pc = "poll" -> Tick(g)
      [] g.pc = "timeout" -> Resolve(g)
      [] g.pc = "react" -> {Punish(g)}
      [] g.pc = "rejected" -> Eliminate(g)
      [] g.pc = "died" -> {Bury(g)}
      [] g.pc = "buried" -> WinCheck(g)
      [] g.pc = "wins" -> {GameOverEmbed(g)}
      [] g.pc = "gameover" -> {[g EXCEPT !.running = FALSE, !.pc = "done"]}
      [] OTHER -> {}

\* the resumed code takes a life from the player on the clock
TakesLife(g) ==
    \/ g.pc = "react"
    \/ g.pc = "poll" /\ g.timeRemaining - 1 <= 0

\* the task of object gid runs from pc `at` to its next await
Run(gid, at) ==
    /\ pool[gid].pc = at
    /\ TakesLife(pool[gid]) => Current(pool[gid]).hearts > -MaxDebt
    /\ \E g \in Resume(pool[gid]) :
          pool' = WithGame(gid, IF NoTask(g) /\ ~Registered(gid) THEN Freed ELSE g)
    /\ UNCHANGED games

(* ----------------------------- inputs --------------------------------- *)

\* the shortest word a^k, k >= 2, not yet used (<<>>: all are used)
NextUnary(g) ==
    LET free == {k \in 2..(NumWords + 1) : Unary(k) \notin g.used_words} IN
    IF free = {} THEN <<>>
    ELSE Unary(CHOOSE k \in free : \A j \in free : k <= j)

\* the longest word a^k already used (<<>>: none)
LastUnary(g) ==
    LET used == {k \in 2..(NumWords + 1) : Unary(k) \in g.used_words} IN
    IF used = {} THEN <<>>
    ELSE Unary(CHOOSE k \in used : \A j \in used : k >= j)

Capitalised(w) == IF w = <<>> THEN w ELSE <<"A">> \o Tail(w)

\* the contents sent to a game: one per outcome of the validation of lines
\* 160-163 (a fresh word typed with a capital, a used word, a word of one
\* letter, a word that is not in the dictionary)
Contents(g) ==
    ({Capitalised(NextUnary(g)), LastUnary(g)} \ {<<>>})
       \cup {<<"a">>, <<"a", "c">>}

(* --------------------------- specifications --------------------------- *)

\* a handler runs
Does(outs) == \E o \in outs : games' = o.games /\ pool' = o.pool

Create == \E u \in Users, ch \in Rooms : Does(userGameInstanceCreation(u, ch))

Join == \E u \in Users, gid \in Gids : Does(joinGame(u, gid))

StartRequest == \E u \in Users, gid \in Gids : Does(startGameCountdown(u, gid))

\* a message while no turn loop runs: its content is never read
Chat == \E u \in Users, ch \in Rooms : Does(on_message(u, ch, <<"A", "a">>))

Stop == \E u \in Users : Does(stopgame(u))

Next == Create \/ Join \/ StartRequest \/ Chat \/ Stop

\* the program as the source has it: no start request gets past line 202,
\* so no task is ever launched
Spec == Init /\ [][Next]_vars

\* the pc values at which a task is suspended
Awaits == {"starting", "countdown", "counted", "turn", "poll", "timeout",
           "react", "rejected", "died", "buried", "wins", "gameover"}

\* a create request by any user in any channel; one that constructs an
\* object is the first user's in the first channel, and the object is the
\* only one
CreateOne ==
    \E u \in Users, ch \in Rooms :
        \E o \in userGameInstanceCreation(u, ch) :
            /\ o.reply = "Created" =>
                  /\ \A v \in Users : u <= v
                  /\ \A r \in Rooms : ch <= r
                  /\ Len(o.pool) <= 1
            /\ games' = o.games /\ pool' = o.pool

\* the users outside a roster are alike: the first of them stands for all
FirstOutside(u, g) == \A v \in Users \ Ids(g.players) : u <= v

JoinAny ==
    \E u \in Users, gid \in Gids :
        /\ u \in Ids(pool[gid].players) \/ FirstOutside(u, pool[gid])
        /\ Does(joinGame(u, gid))

\* the start requests that lines 202-205 turn away
StartRefused ==
    \E u \in Users, gid \in Gids :
        /\ pool[gid].stage = 1 \/ u # pool[gid].userID
        /\ Does(startGameCountdown(u, gid))

Admit ==
    \E gid \in Gids :
        /\ Registered(gid)
        /\ pool[gid].pc = "idle"
        /\ Does(startGameCountdownAdmitted(gid))

\* the contents of at most two letters
FewContents(g) == {c \in Contents(g) : Len(c) <= 2}

Message ==
    \E u \in Users, gid \in Gids : \E c \in FewContents(pool[gid]) :
        /\ Registered(gid)
        /\ Does(on_message(u, pool[gid].channelID, c))

StopAny == \E u \in Users : Does(stopgame(u))

Task == \E gid \in Gids, at \in Awaits : Run(gid, at)

NextLoop ==
    CreateOne \/ JoinAny \/ StartRefused \/ Admit \/ Message \/ StopAny \/ Task

\* one session whose host's start request is admitted: its turn loop with
\* every handler running between its awaits; the players send few words
SpecLoop == Init /\ [][NextLoop]_vars

\* a join before the game starts
JoinLobby ==
    \E u \in Users, gid \in Gids :
        /\ pool[gid].pc = "idle"
        /\ u \in Ids(pool[gid].players) \/ FirstOutside(u, pool[gid])
        /\ Does(joinGame(u, gid))

MessageAny ==
    \E u \in Users, gid \in Gids : \E c \in Contents(pool[gid]) :
        /\ Registered(gid)
        /\ Does(on_message(u, pool[gid].channelID, c))

NextDeep == CreateOne \/ JoinLobby \/ Admit \/ MessageAny \/ Task

\* one session played to the end of the dictionary: the turn loop and the
\* messages, no join after the start, no stop
SpecDeep == Init /\ [][NextDeep]_vars

\* a user or a guest joins before the game starts; those outside the
\* roster are alike, the first of them stands for all
JoinGuest ==
    \E u \in Users \cup Guests, gid \in Gids :
        /\ pool[gid].pc = "idle"
        /\ u \notin Ids(pool[gid].players)
        /\ \A v \in (Users \cup Guests) \ Ids(pool[gid].players) : u <= v
        /\ Does(joinGame(u, gid))

MessageGuest ==
    \E u \in Users \cup Guests, gid \in Gids : \E c \in FewContents(pool[gid]) :
        /\ Registered(gid)
        /\ Does(on_message(u, pool[gid].channelID, c))

NextTrio == CreateOne \/ JoinGuest \/ Admit \/ MessageGuest \/ Task

\* one session with up to NumUsers + NumGuests players, all of whom joined
\* in Lobby: the turn loop and the messages, no stop
SpecTrio == Init /\ [][NextTrio]_vars

(* ------------------------------- claims ------------------------------- *)

\* a turn is open: the resolution before it, if any, is complete
Waiting(g) == g.pc \in {"turn", "poll"}

\* gameOver has built the statistics
Finalized(g) == g.stats # <<>>

Hearts(g) == {g.players[i].hearts : i \in 1..Len(g.players)}

\* C1: no player's lives are ever negative, and once a turn resolution is
\* complete (a turn is open, or the session is finalized) no player of the
\* roster has 0 lives or less.
C1_LivesStayValid ==
    \A gid \in Gids :
        /\ \A h \in Hearts(pool[gid]) : h >= 0
        /\ Waiting(pool[gid]) \/ Finalized(pool[gid]) =>
              \A h \in Hearts(pool[gid]) : h > 0

\* C2: every step that changes usedWords adds exactly one word, the lower-
\* cased pending answer, which has length >= 2, is in the dictionary,
\* starts with the current prefix and was not in usedWords; usedWords
\* never loses a word, and playsCount is the number of words in usedWords.
C2_OnlyValidWordsAccepted ==
    [][\A gid \in Gids :
         LET g == pool[gid]
             h == pool'[gid]
         IN  /\ g.used_words \subseteq h.used_words
             /\ h.plays = Cardinality(h.used_words)
             /\ h.used_words # g.used_words =>
                  /\ g.responded
                  /\ h.used_words = g.used_words \cup {Lower(g.response[1])}
                  /\ Len(Lower(g.response[1])) >= 2
                  /\ Lower(g.response[1]) \in Words
                  /\ StartsWith(Lower(g.response[1]), Lower(g.currentStarter))
                  /\ Lower(g.response[1]) \notin g.used_words]_vars

\* C2 witness: after ten accepted words, an unused dictionary word of two
\* letters or more that does not start with the prefix is being rejected.
C2_WrongPrefixRejected ==
    \E gid \in Gids :
        LET g == pool[gid] IN
        /\ g.pc = "react"
        /\ g.plays >= 10
        /\ Lower(g.response[1]) \in Words \ g.used_words
        /\ Len(Lower(g.response[1])) >= 2
        /\ ~StartsWith(Lower(g.response[1]), Lower(g.currentStarter))

\* C3: stage never decreases, and after every turn resolution (a turn is
\* open, or the session is finalized) stage = min(7, floor(playsCount/10)
\* + 1), in the session and in the statistics gameOver reports.
C3_StageFollowsPlays ==
    [][\A gid \in Gids :
         LET g == pool[gid]
             h == pool'[gid]
             expected(plays) == IF (plays \div 10) + 1 < 7
                                THEN (plays \div 10) + 1 ELSE 7
         IN  /\ h.stage >= g.stage
             /\ Waiting(h) \/ Finalized(h) => h.stage = expected(h.plays)
             /\ Finalized(h) =>
                  h.stats[1].stage = expected(h.stats[1].plays)]_vars

\* C4: when the task resumes from the pause that follows a timeout, the
\* turn accepts no word (usedWords and playsCount are unchanged) and does
\* not enter the rejected-answer path, which would take a second life.
C4_TimeoutExcludesAnswer ==
    [][\A gid \in Gids :
         LET g == pool[gid]
             h == pool'[gid]
         IN  g.pc = "timeout" /\ h.pc # "timeout" /\ h.pc # "freed" =>
               /\ h.used_words = g.used_words
               /\ h.plays = g.plays
               /\ h.pc # "react"]_vars

C6_MultiplayerFinalizes ==
    [][\A gid \in Gids :
         LET g == pool[gid]
             h == pool'[gid]
         IN  /\ g.pc = "counted" /\ h.pc = "turn" /\ Len(h.players) >= 2 =>
                  ~h.singleplayer
             /\ g.pc = "buried" /\ h.pc \notin {"buried", "freed"}
                  /\ Len(g.players) = 1 /\ ~g.singleplayer =>
                  h.pc = "wins"]_vars

\* C7: the start request of its host moves a session in Lobby (in the
\* dict, no task yet) to Countdown.
C7_HostStartBeginsCountdown ==
    \A gid \in Gids :
        Registered(gid) /\ pool[gid].pc = "idle" =>
            \A o \in startGameCountdown(pool[gid].userID, gid) :
                o.pool[gid].pc = "starting"

\* C8: a start request by a user who is not the host of a session in
\* Lobby is answered NotHost and launches nothing.
C8_NonHostGetsNotHost ==
    \A gid \in Gids, u \in Users :
        Registered(gid) /\ pool[gid].pc = "idle" /\ u # pool[gid].userID =>
            \A o \in startGameCountdown(u, gid) :
                o.reply = "NotHost" /\ o.pool[gid].pc = "idle"

\* the sessions of the dict
Hosts == {h \in Users : games[h] # 0}

\* C9: no two sessions of the registry have the same room, no host owns
\* more than one of them; a create request for an occupied room is
\* answered RoomOccupied and one by a user who already hosts (for a room
\* that is free) HostAlreadyHosting, and both leave the registry and the
\* sessions as they are.
C9_RegistryUnique ==
    /\ \A h1 \in Hosts, h2 \in Hosts :
          h1 # h2 => /\ games[h1] # games[h2]
                     /\ pool[games[h1]].channelID # pool[games[h2]].channelID
    /\ \A u \in Users :
          Cardinality({h \in Hosts : pool[games[h]].userID = u}) <= 1
    /\ \A u \in Users, ch \in Rooms :
          LET occupied == \E h \in Hosts : pool[games[h]].channelID = ch
              hosting == \E h \in Hosts : pool[games[h]].userID = u
          IN  /\ occupied =>
                   userGameInstanceCreation(u, ch) = {Out(games, pool, "RoomOccupied")}
              /\ hosting /\ ~occupied =>
                   userGameInstanceCreation(u, ch) = {Out(games, pool, "HostAlreadyHosting")}

\* C9 witness: the registry holds two sessions.
C9_TwoSessions == Cardinality(Hosts) = 2

\* C10: a session finalized by its turn loop is no longer in the registry,
\* and a create request by its host for its room is answered Created.
C10_FinalizedIsReleased ==
    \A gid \in Gids :
        Finalized(pool[gid]) /\ pool[gid].pc = "done" =>
            /\ ~Registered(gid)
            /\ \A o \in userGameInstanceCreation(pool[gid].userID,
                                                 pool[gid].channelID) :
                   o.reply = "Created"

\* the session is Active: its task is in the turn loop
Active(g) == g.pc \in {"turn", "poll", "timeout", "react", "rejected",
                       "died", "buried", "wins"}

\* C11: when the host's stop request removes an Active session from the
\* dict, the code its task runs when it resumes from the await it is
\* suspended at takes no life, removes no player, accepts no word and
\* begins no new turn.
C11_StopHaltsLoop ==
    [][\A gid \in Gids :
         Registered(gid) /\ Active(pool[gid]) /\ games'[pool[gid].userID] = 0 =>
            \A h \in Resume(pool'[gid]) :
               /\ h.players = pool'[gid].players
               /\ h.used_words = pool'[gid].used_words
               /\ h.plays = pool'[gid].plays
               /\ h.pc # "turn"]_vars

\* C12: a step makes a message the pending answer of a session only if the
\* session is Active and no answer is pending (the author is the player
\* at turnIndex by line 309).
C12_AnswerOnlyInOpenTurn ==
    [][\A gid \in Gids :
         LET g == pool[gid]
             h == pool'[gid]
         IN  h.responded /\ h.response # g.response =>
               Active(g) /\ ~g.responded]_vars

\* line 152 has fired in this turn, a life was taken for the timeout
\* (timeRemaining is set again by line 185, for the next turn)
TimedOut(g) == g.timeRemaining <= 0

\* C13: the step that resolves a rejected answer (the task resumes from
\* the reaction) takes one life from the player on the clock, the only
\* one this turn takes, and changes neither usedWords nor playsCount nor
\* another player; when the pause that follows ends and the player has
\* survived, the next turn is the next player's in roster order, with
\* the roster, usedWords and playsCount as they were.
C13_RejectedCostsOneLife ==
    [][\A gid \in Gids :
         LET g == pool[gid]
             h == pool'[gid]
             i == g.currentPlayerIndex + 1
         IN  /\ g.pc = "react" /\ h.pc = "rejected" =>
                  /\ ~TimedOut(g)
                  /\ h.players[i].hearts = g.players[i].hearts - 1
                  /\ Len(h.players) = Len(g.players)
                  /\ \A j \in 1..Len(g.players) :
                        j # i => h.players[j] = g.players[j]
                  /\ h.used_words = g.used_words
                  /\ h.plays = g.plays
             /\ g.pc = "rejected" /\ h.pc = "turn" =>
                  /\ h.players = g.players
                  /\ h.currentPlayerIndex = i % Len(g.players)
                  /\ h.used_words = g.used_words
                  /\ h.plays = g.plays]_vars

\* C14: a stop request by the host of a session that was stopped before
\* (its entry is gone from the dict, its task still holds it) does not
\* fail and changes neither the dict nor a session.
C14_SecondStopHarmless ==
    \A gid \in Gids :
        /\ pool[gid] # Freed
        /\ ~Registered(gid)
        /\ games[pool[gid].userID] = 0
        => \A o \in stopgame(pool[gid].userID) :
              /\ o.reply \notin {"KeyError", "AttributeError"}
              /\ o.games = games
              /\ o.pool = pool

\* C15: when the pause after an elimination ends with the roster empty,
\* the session finalizes with no winner (gameOver builds the statistics)
\* and its task does not raise.
C15_EmptyRosterFinalizes ==
    [][\A gid \in Gids :
         LET g == pool[gid]
             h == pool'[gid]
         IN  Registered(gid) /\ g.pc = "buried" /\ g.players = <<>>
                /\ h.pc # "buried" =>
               /\ h.pc = "gameover"
               /\ h.stats # <<>>
               /\ h.stats[1].winner = 0]_vars

\* C16: the statistics of a session, once built, are never built again,
\* and a session that its host's stop request has removed from the dict
\* is not finalized by a later step of its task.
C16_FinalizedOnce ==
    [][\A gid \in Gids :
         LET g == pool[gid]
             h == pool'[gid]
         IN  /\ Finalized(g) /\ h.pc # "freed" => h.stats = g.stats
             /\ ~Registered(gid) /\ ~Finalized(g) => ~Finalized(h)]_vars

\* C17: a step adds a player to the roster of a session only while the
\* session is in Lobby (no task has been launched for it).
C17_JoinOnlyInLobby ==
    [][\A gid \in Gids :
         LET g == pool[gid]
             h == pool'[gid]
         IN  g # Freed /\ Len(h.players) > Len(g.players) =>
               g.pc = "idle"]_vars

\* C18: no two players of a roster have the same identity, and a join
\* request by a user who is in the roster of a session of the dict is
\* answered AlreadyJoined and changes nothing.
C18_RosterHasNoDuplicates ==
    \A gid \in Gids :
        /\ Cardinality(Ids(pool[gid].players)) = Len(pool[gid].players)
        /\ Registered(gid) =>
              \A u \in Ids(pool[gid].players) :
                  joinGame(u, gid) = {Out(games, pool, "AlreadyJoined")}

\* C18 witness: the host was eliminated and has joined again, behind the
\* player who stayed.
C18_HostRejoined ==
    \E gid \in Gids :
        /\ Registered(gid)
        /\ Len(pool[gid].players) = 2
        /\ pool[gid].players[2].id = pool[gid].userID

\* C19: the prefix of an Active session at stage s is the first s
\* characters of a dictionary word of s characters or more, so a word of
\* the dictionary starts with it.
C19_PrefixOfDictionaryWord ==
    \A gid \in Gids :
        Active(pool[gid]) =>
            /\ \E w \in Words :
                  /\ Len(w) >= pool[gid].stage
                  /\ pool[gid].currentStarter = SubSeq(w, 1, pool[gid].stage)
            /\ \E w \in Words :
                  StartsWith(w, Lower(pool[gid].currentStarter))

\* C20: when a player who is not the last entry of the roster is removed
\* (line 174) and the game goes on, the next turn the task opens is the
\* turn of the player who followed the removed one in the roster.
C20_FollowerPlaysNext ==
    [][\A gid \in Gids :
         LET g == pool[gid]
             h == pool'[gid]
         IN  g.pc = "died" /\ h.pc = "buried"
                /\ g.currentPlayerIndex + 1 < Len(g.players) =>
               \A k \in Resume(h) :
                   k.pc = "turn" =>
                      Current(k).id = At(g.players, g.currentPlayerIndex + 1).id]_vars

=============================================================================
